---- MODULE Spec2Model ----
(***************************************************************************)
(* Session lifecycle tracking of the accessible learning platform.         *)
(*                                                                         *)
(* Two independent persistence back ends keep the same kind of records:    *)
(*   - the hosted Postgres tables `sessions` and `profiles`, written by    *)
(*     the browser client (createSession, closeSession in AuthContext.tsx) *)
(*     and by the close-session edge function (the unload beacon);         *)
(*   - the MongoDB collections `Session` and `User`, written by the        *)
(*     Express controllers login and logout (authController.js).           *)
(*                                                                         *)
(* Every handler is an async function: between two awaits it runs          *)
(* atomically, and at each await (one persistence call) other handlers     *)
(* may run.  A handler in flight is a record of `reqs` whose pc names the  *)
(* persistence call it is waiting for.                                     *)
(*                                                                         *)
(* Times are milliseconds since the epoch (Date.getTime()).  What          *)
(* new Date() returns is an input of the step that calls it: the wall      *)
(* clock of a browser or a server is not monotonic and the two are not     *)
(* synchronised.  A nullable column is Null (<<>>) or Some(v) (<<v>>).     *)
(***************************************************************************)
EXTENDS Integers, Sequences, FiniteSets, TLC

\* ---------------------------------------------------------------- bounds
MaxHalfMinutes == 2      \* the instants are 0 .. MaxHalfMinutes half minutes
MaxFaults == 1           \* persistence calls that can fail in one behaviour
MaxHandlers == 2         \* handlers that can be started in one behaviour
ScenarioHandlers == 4    \* handlers that one tab's two visits start

\* ------------------------------------------------------------- constants
MsPerMinute == 60000     \* 1000 * 60
HalfMinuteMs == MsPerMinute \div 2

Users == {"u1", "u2"}    \* accounts; each has a profiles row and a User document
NoProfile == "u0"        \* a well-formed user id that has no profiles row
NoUserId == ""           \* an absent or empty user_id (falsy in JavaScript)
NoSessionId == 0         \* an absent or empty session id (falsy in JavaScript)
BadObjectId == -1        \* a session id string that does not cast to an ObjectId

Null == <<>>
Some(v) == <<v>>
Val(o) == o[1]

\* The instants new Date() (and a client-supplied logout_at) can show.
Instants == {i * HalfMinuteMs : i \in 0..MaxHalfMinutes}

\* Session ids a caller can name: the ids of the n rows that exist and one
\* well-formed id that matches no row.
SessionIds(n) == 1..(n + 1)

VARIABLES
  sessions,   \* Postgres table sessions: sequence of rows, id = index
  profiles,   \* Postgres table profiles: one row per user
  Session,    \* MongoDB collection of Session documents, _id = index
  User,       \* MongoDB collection of User documents
  reqs,       \* the handlers in flight
  reply,      \* the response sent by the latest step, NoReply if it sent none
  faults,     \* history: the number of persistence calls that have failed
  started,    \* history: the number of handlers started
  signedIn,         \* the auth session the Supabase client keeps: its user, or Null
  mounted,          \* the tab shows the page: AuthProvider is mounted
  user,             \* AuthProvider state user
  currentSessionId, \* AuthProvider state currentSessionId
  sessionStorage,   \* the tab's sessionStorage items learning_session_id and user_id
  tasks,            \* the async callbacks of AuthProvider: where each one stands
  beacons           \* the payloads handed to navigator.sendBeacon, not yet received

\* The two back ends with their handlers, and the browser tab.
serverVars == <<sessions, profiles, Session, User, reqs, reply, faults, started>>
clientVars == <<signedIn, mounted, user, currentSessionId, sessionStorage, tasks, beacons>>

vars == <<serverVars, clientVars>>

\* ---------------------------------------------------------- pure helpers

\* Math.floor(n / d) for d > 0: what Math.round is not.
MathRoundDown(n, d) == n \div d

\* Math.round(n / d) for d > 0: the nearest integer, halves towards +infinity.
MathRound(n, d) == (2 * n + d) \div (2 * d)

MathMax(a, b) == IF a >= b THEN a ELSE b

\* closeSession:  Math.round((logoutAt.getTime() - loginAt.getTime()) / (1000 * 60))
ClientDuration(loginAt, logoutAt) == MathRound(logoutAt - loginAt, MsPerMinute)

\* close-session edge function:  Math.max(0, Math.round((logoutTime - loginAt) / (1000 * 60)))
BeaconDuration(loginAt, logoutTime) ==
  MathMax(0, MathRound(logoutTime - loginAt, MsPerMinute))

\* Express logout:  Math.max(0, Math.round(durationMs / (1000 * 60)))
ExpressDuration(loginAt, logoutTime) ==
  MathMax(0, MathRound(logoutTime - loginAt, MsPerMinute))

\* ------------------------------------------------------------ the records

NewSessionRow(userId, loginAt) ==
  [user_id |-> userId, login_at |-> loginAt,
   logout_at |-> Null, duration_minutes |-> Null]

NewProfile ==
  [last_login_at |-> Null, last_logout_at |-> Null, total_active_minutes |-> 0]

NewSessionDoc(userId, loginAt) ==
  [userId |-> userId, loginAt |-> loginAt,
   logoutAt |-> Null, durationMinutes |-> Null]

NewUserDoc ==
  [lastLoginAt |-> Null, lastLogoutAt |-> Null, totalActiveMinutes |-> 0]

\* A slot with no handler in flight.
Idle ==
  [kind |-> "none", pc |-> "done",
   session_id |-> NoSessionId, user_id |-> NoUserId,
   loginAt |-> 0, logoutAt |-> 0, durationMinutes |-> 0, total |-> 0,
   wasClosed |-> FALSE]

\* A handler suspended at the persistence call pc, with its local variables.
\* wasClosed is history, not a local: a close handler found its session
\* already closed when it read it.
Pending(kind, pc, sid, uid, loginAt, logoutAt, d, total) ==
  [kind |-> kind, pc |-> pc,
   session_id |-> sid, user_id |-> uid,
   loginAt |-> loginAt, logoutAt |-> logoutAt, durationMinutes |-> d, total |-> total,
   wasClosed |-> FALSE]

\* The same, for a close handler that read a session whose logout_at was `old`.
PendingClose(kind, sid, uid, loginAt, logoutAt, d, old) ==
  [Pending(kind, IF kind = "logout" THEN "saveSession" ELSE "updateSession",
           sid, uid, loginAt, logoutAt, d, 0)
     EXCEPT !.wasClosed = (old # Null)]

\* What a handler answers when it returns: an HTTP status, or 0 for the plain
\* return of a client function.
Reply(kind, status) == [kind |-> kind, status |-> status]
NoReply == Reply("none", 0)

Slots == 1..MaxHandlers
Free(r) == reqs[r].pc = "done"

\* A new handler takes the first free slot.
FirstFree(r) == Free(r) /\ \A q \in Slots : q < r => ~Free(q)

\* A persistence call can fail (network, database); at most MaxFaults do.
CanFail == faults < MaxFaults

\* The stores when the behaviour starts: empty, or holding the one open session
\* that an earlier sign-in of some user left in one of the two back ends.
InitStores ==
     \/ /\ sessions = <<>>
        /\ profiles = [u \in Users |-> NewProfile]
        /\ Session = <<>>
        /\ User = [u \in Users |-> NewUserDoc]
     \/ \E owner \in Users, t \in Instants :
          /\ sessions = <<NewSessionRow(owner, t)>>
          /\ profiles = [u \in Users |->
                IF u = owner THEN [NewProfile EXCEPT !.last_login_at = Some(t)] ELSE NewProfile]
          /\ Session = <<>>
          /\ User = [u \in Users |-> NewUserDoc]
     \/ \E owner \in Users, t \in Instants :
          /\ sessions = <<>>
          /\ profiles = [u \in Users |-> NewProfile]
          /\ Session = <<NewSessionDoc(owner, t)>>
          /\ User = [u \in Users |->
                IF u = owner THEN [NewUserDoc EXCEPT !.lastLoginAt = Some(t)] ELSE NewUserDoc]

\* No handler is in flight and none has run.
InitHandlers ==
  /\ reqs = [r \in Slots |-> Idle]
  /\ reply = NoReply
  /\ faults = 0
  /\ started = 0

\* sessionStorage with neither item, and with both.
EmptyStorage == [learning_session_id |-> Null, user_id |-> Null]
Cached(sessionId, userId) == [learning_session_id |-> Some(sessionId), user_id |-> Some(userId)]

\* An async callback of AuthProvider: the await it stands at ("none" when it
\* is not running), the handler slot it awaits and the user id it was given.
NoTask == [pc |-> "none", slot |-> 0, uid |-> NoUserId]
NoTasks == [deferred |-> NoTask, startup |-> NoTask, logout |-> NoTask]

\* No tab is open and nobody is signed in.
InitSignedOut ==
  /\ signedIn = Null
  /\ mounted = FALSE
  /\ user = Null
  /\ currentSessionId = Null
  /\ sessionStorage = EmptyStorage
  /\ tasks = NoTasks
  /\ beacons = <<>>

Init == InitStores /\ InitHandlers /\ InitSignedOut

\* -------------------------------------------- client: createSession(userId)
\* Row level security lets the signed-in user insert, read and update only
\* rows whose user_id is the user's own id; the client always passes its own
\* user id, so userId is also the identity the database sees.

\* insert({user_id, login_at: new Date()}).select('id').single()
CreateSessionInsert(r, userId, now) ==
  /\ started < MaxHandlers
  /\ FirstFree(r)
  /\ \/ /\ sessions' = Append(sessions, NewSessionRow(userId, now))
        /\ reqs' = [reqs EXCEPT ![r] =
             Pending("createSession", "updateProfile", Len(sessions) + 1, userId, 0, 0, 0, 0)]
        /\ reply' = NoReply
        /\ UNCHANGED faults
     \/ /\ CanFail                       \* error: logged, return null
        /\ faults' = faults + 1
        /\ reply' = Reply("createSession", 0)
        /\ UNCHANGED <<sessions, reqs>>
  /\ started' = started + 1
  /\ UNCHANGED <<profiles, Session, User>>

\* profiles.update({last_login_at: new Date()}).eq('id', userId); return data.id
CreateSessionUpdateProfile(r, now) ==
  /\ reqs[r].kind = "createSession" /\ reqs[r].pc = "updateProfile"
  /\ \/ /\ profiles' = [profiles EXCEPT ![reqs[r].user_id].last_login_at = Some(now)]
        /\ UNCHANGED faults
     \/ /\ CanFail                       \* the result of the update is not looked at
        /\ faults' = faults + 1
        /\ UNCHANGED profiles
  /\ reqs' = [reqs EXCEPT ![r] = Idle]
  /\ reply' = Reply("createSession", 0)
  /\ UNCHANGED <<sessions, Session, User, started>>

\* ------------------------------- client: closeSession(sessionId, userId)

\* The row the select of login_at returns to the signed-in user, if any.
VisibleTo(userId, sessionId) ==
  /\ sessionId \in 1..Len(sessions)
  /\ sessions[sessionId].user_id = userId

\* sessions.select('login_at').eq('id', sessionId).single(); if (!sessionData) return;
\* then loginAt, logoutAt = new Date() and durationMinutes are computed.
CloseSessionSelect(r, sessionId, userId, now) ==
  /\ started < MaxHandlers
  /\ FirstFree(r)
  /\ \/ /\ VisibleTo(userId, sessionId)
        /\ reqs' = [reqs EXCEPT ![r] =
             PendingClose("closeSession", sessionId, userId,
                          sessions[sessionId].login_at, now,
                          ClientDuration(sessions[sessionId].login_at, now),
                          sessions[sessionId].logout_at)]
        /\ reply' = NoReply
        /\ UNCHANGED faults
     \/ /\ ~VisibleTo(userId, sessionId)   \* no row: silent return
        /\ reply' = Reply("closeSession", 0)
        /\ UNCHANGED <<reqs, faults>>
     \/ /\ CanFail                         \* error: sessionData is null, silent return
        /\ faults' = faults + 1
        /\ reply' = Reply("closeSession", 0)
        /\ UNCHANGED reqs
  /\ started' = started + 1
  /\ UNCHANGED <<sessions, profiles, Session, User>>

\* An update of sessions that writes logout_at and leaves duration_minutes.
CloseSessionUpdateLogoutAt(r) ==
  /\ reqs[r].kind = "closeSession" /\ reqs[r].pc = "updateSession"
  /\ \/ /\ sessions' = [sessions EXCEPT ![reqs[r].session_id] =
                          [@ EXCEPT !.logout_at = Some(reqs[r].logoutAt)]]
        /\ UNCHANGED faults
     \/ /\ CanFail
        /\ faults' = faults + 1
        /\ UNCHANGED sessions
  /\ reqs' = [reqs EXCEPT ![r].pc = "selectProfile"]
  /\ reply' = NoReply
  /\ UNCHANGED <<profiles, Session, User, started>>

\* sessions.update({logout_at, duration_minutes}).eq('id', sessionId)
CloseSessionUpdateSession(r) ==
  /\ reqs[r].kind = "closeSession" /\ reqs[r].pc = "updateSession"
  /\ \/ /\ sessions' = [sessions EXCEPT ![reqs[r].session_id] =
                          [@ EXCEPT !.logout_at = Some(reqs[r].logoutAt),
                                    !.duration_minutes = Some(reqs[r].durationMinutes)]]
        /\ UNCHANGED faults
     \/ /\ CanFail                         \* the result of the update is not looked at
        /\ faults' = faults + 1
        /\ UNCHANGED sessions
  /\ reqs' = [reqs EXCEPT ![r].pc = "selectProfile"]
  /\ reply' = NoReply
  /\ UNCHANGED <<profiles, Session, User, started>>

\* profiles.select('total_active_minutes').eq('id', userId).single()
CloseSessionSelectProfile(r) ==
  /\ reqs[r].kind = "closeSession" /\ reqs[r].pc = "selectProfile"
  /\ \/ /\ reqs' = [reqs EXCEPT ![r].pc = "updateProfile",
                                ![r].total = profiles[reqs[r].user_id].total_active_minutes]
        /\ reply' = NoReply
        /\ UNCHANGED faults
     \/ /\ CanFail                         \* profileData is null: nothing more is done
        /\ faults' = faults + 1
        /\ reqs' = [reqs EXCEPT ![r] = Idle]
        /\ reply' = Reply("closeSession", 0)
  /\ UNCHANGED <<sessions, profiles, Session, User, started>>

\* An update of profiles that stores the duration as the total.
CloseSessionUpdateProfileOverwrite(r) ==
  /\ reqs[r].kind = "closeSession" /\ reqs[r].pc = "updateProfile"
  /\ \/ /\ profiles' = [profiles EXCEPT ![reqs[r].user_id] =
                          [@ EXCEPT !.last_logout_at = Some(reqs[r].logoutAt),
                                    !.total_active_minutes = reqs[r].durationMinutes]]
        /\ UNCHANGED faults
     \/ /\ CanFail
        /\ faults' = faults + 1
        /\ UNCHANGED profiles
  /\ reqs' = [reqs EXCEPT ![r] = Idle]
  /\ reply' = Reply("closeSession", 0)
  /\ UNCHANGED <<sessions, Session, User, started>>

\* profiles.update({last_logout_at, total_active_minutes: total + durationMinutes})
CloseSessionUpdateProfile(r) ==
  /\ reqs[r].kind = "closeSession" /\ reqs[r].pc = "updateProfile"
  /\ \/ /\ profiles' = [profiles EXCEPT ![reqs[r].user_id] =
                          [@ EXCEPT !.last_logout_at = Some(reqs[r].logoutAt),
                                    !.total_active_minutes = reqs[r].total + reqs[r].durationMinutes]]
        /\ UNCHANGED faults
     \/ /\ CanFail
        /\ faults' = faults + 1
        /\ UNCHANGED profiles
  /\ reqs' = [reqs EXCEPT ![r] = Idle]
  /\ reply' = Reply("closeSession", 0)
  /\ UNCHANGED <<sessions, Session, User, started>>

\* ------------------------- edge function close-session (the unload beacon)
\* It runs with the service role key: row level security does not apply.

\* The logout_at values a payload can carry: absent, or an instant.
LogoutAtInputs == {Null} \cup {Some(t) : t \in Instants}

\* A check of session_id alone.
NoSessionIdOnly(session_id, user_id) == session_id = NoSessionId

\* !session_id || !user_id
MissingFields(session_id, user_id) ==
  session_id = NoSessionId \/ user_id = NoUserId

\* const {session_id, user_id, logout_at} = await req.json(); the 400 check;
\* sessions.select('login_at').eq('id', session_id).single(); the 404 check;
\* then loginAt, logoutTime and durationMinutes are computed.
BeaconReceive(r, session_id, user_id, logout_at, now) ==
  /\ started < MaxHandlers
  /\ FirstFree(r)
  /\ IF MissingFields(session_id, user_id)
       THEN /\ reply' = Reply("beacon", 400)
            /\ UNCHANGED <<reqs, faults>>
       ELSE \/ /\ session_id \in 1..Len(sessions)
               /\ LET loginAt == sessions[session_id].login_at
                      logoutTime == IF logout_at = Null THEN now ELSE Val(logout_at)
                  IN reqs' = [reqs EXCEPT ![r] =
                       PendingClose("beacon", session_id, user_id, loginAt, logoutTime,
                                    BeaconDuration(loginAt, logoutTime),
                                    sessions[session_id].logout_at)]
               /\ reply' = NoReply
               /\ UNCHANGED faults
            \/ /\ session_id \notin 1..Len(sessions)
               /\ reply' = Reply("beacon", 404)
               /\ UNCHANGED <<reqs, faults>>
            \/ /\ CanFail                  \* sessionError: also answered 404
               /\ faults' = faults + 1
               /\ reply' = Reply("beacon", 404)
               /\ UNCHANGED reqs
  /\ started' = started + 1
  /\ UNCHANGED <<sessions, profiles, Session, User>>

\* An update of sessions that also writes the payload's user_id.
BeaconUpdateSessionAndUser(r) ==
  /\ reqs[r].kind = "beacon" /\ reqs[r].pc = "updateSession"
  /\ \/ /\ sessions' = [sessions EXCEPT ![reqs[r].session_id] =
                          [@ EXCEPT !.user_id = reqs[r].user_id,
                                    !.logout_at = Some(reqs[r].logoutAt),
                                    !.duration_minutes = Some(reqs[r].durationMinutes)]]
        /\ UNCHANGED faults
     \/ /\ CanFail
        /\ faults' = faults + 1
        /\ UNCHANGED sessions
  /\ reqs' = [reqs EXCEPT ![r].pc = "selectProfile"]
  /\ reply' = NoReply
  /\ UNCHANGED <<profiles, Session, User, started>>

\* sessions.update({logout_at, duration_minutes}).eq('id', session_id)
BeaconUpdateSession(r) ==
  /\ reqs[r].kind = "beacon" /\ reqs[r].pc = "updateSession"
  /\ \/ /\ sessions' = [sessions EXCEPT ![reqs[r].session_id] =
                          [@ EXCEPT !.logout_at = Some(reqs[r].logoutAt),
                                    !.duration_minutes = Some(reqs[r].durationMinutes)]]
        /\ UNCHANGED faults
     \/ /\ CanFail                         \* updateSessionError: logged, goes on
        /\ faults' = faults + 1
        /\ UNCHANGED sessions
  /\ reqs' = [reqs EXCEPT ![r].pc = "selectProfile"]
  /\ reply' = NoReply
  /\ UNCHANGED <<profiles, Session, User, started>>

\* profiles.select('total_active_minutes').eq('id', user_id).single()
BeaconSelectProfile(r) ==
  /\ reqs[r].kind = "beacon" /\ reqs[r].pc = "selectProfile"
  /\ \/ /\ reqs[r].user_id \in Users
        /\ reqs' = [reqs EXCEPT ![r].pc = "updateProfile",
                                ![r].total = profiles[reqs[r].user_id].total_active_minutes]
        /\ reply' = NoReply
        /\ UNCHANGED faults
     \/ /\ reqs[r].user_id \notin Users    \* no profile row: the update is skipped
        /\ reqs' = [reqs EXCEPT ![r] = Idle]
        /\ reply' = Reply("beacon", 200)
        /\ UNCHANGED faults
     \/ /\ CanFail                         \* profileError: logged, the update is skipped
        /\ faults' = faults + 1
        /\ reqs' = [reqs EXCEPT ![r] = Idle]
        /\ reply' = Reply("beacon", 200)
  /\ UNCHANGED <<sessions, profiles, Session, User, started>>

\* profiles.update({last_logout_at, total_active_minutes: total + durationMinutes})
BeaconUpdateProfile(r) ==
  /\ reqs[r].kind = "beacon" /\ reqs[r].pc = "updateProfile"
  /\ \/ /\ profiles' = [profiles EXCEPT ![reqs[r].user_id] =
                          [@ EXCEPT !.last_logout_at = Some(reqs[r].logoutAt),
                                    !.total_active_minutes = reqs[r].total + reqs[r].durationMinutes]]
        /\ UNCHANGED faults
     \/ /\ CanFail                         \* updateProfileError: logged
        /\ faults' = faults + 1
        /\ UNCHANGED profiles
  /\ reqs' = [reqs EXCEPT ![r] = Idle]
  /\ reply' = Reply("beacon", 200)
  /\ UNCHANGED <<sessions, Session, User, started>>

NextHosted ==
  \/ \E r \in Slots, u \in Users, now \in Instants : CreateSessionInsert(r, u, now) /\ UNCHANGED clientVars
  \/ \E r \in Slots, now \in Instants : CreateSessionUpdateProfile(r, now) /\ UNCHANGED clientVars
  \/ \E r \in Slots, sid \in SessionIds(Len(sessions)), u \in Users, now \in Instants :
        CloseSessionSelect(r, sid, u, now) /\ UNCHANGED clientVars
  \/ \E r \in Slots : CloseSessionUpdateSession(r) /\ UNCHANGED clientVars
  \/ \E r \in Slots : CloseSessionSelectProfile(r) /\ UNCHANGED clientVars
  \/ \E r \in Slots : CloseSessionUpdateProfile(r) /\ UNCHANGED clientVars
  \/ \E r \in Slots, sid \in SessionIds(Len(sessions)) \cup {NoSessionId},
        uid \in Users \cup {NoProfile, NoUserId}, lo \in LogoutAtInputs, now \in Instants :
          BeaconReceive(r, sid, uid, lo, now) /\ UNCHANGED clientVars
  \/ \E r \in Slots : BeaconUpdateSession(r) /\ UNCHANGED clientVars
  \/ \E r \in Slots : BeaconSelectProfile(r) /\ UNCHANGED clientVars
  \/ \E r \in Slots : BeaconUpdateProfile(r) /\ UNCHANGED clientVars

SpecHosted == Init /\ [][NextHosted]_vars

\* ------------------------------------------ Express: POST /api/auth/login

\* What a login body can be: neither email nor password, no email, no
\* password, an email of no user, a wrong password, or the credentials of a user.
Credentials == {"missing", "noEmail", "noPassword", "unknown", "wrong"} \cup Users

\* A check of the email alone.
EmailMissing(cred) == cred \in {"missing", "noEmail"}

\* !email || !password
CredentialsMissing(cred) == cred \in {"missing", "noEmail", "noPassword"}

\* The 400 check; User.findOne({email}); user.comparePassword(password);
\* then user.lastLoginAt = new Date().
Login(r, cred, now) ==
  /\ started < MaxHandlers
  /\ FirstFree(r)
  /\ \/ /\ CredentialsMissing(cred)
        /\ reply' = Reply("login", 400)
        /\ UNCHANGED <<reqs, faults>>
     \/ /\ ~CredentialsMissing(cred)
        /\ cred \notin Users
        /\ reply' = Reply("login", 401)
        /\ UNCHANGED <<reqs, faults>>
     \/ /\ cred \in Users
        /\ reqs' = [reqs EXCEPT ![r] = Pending("login", "saveUser", NoSessionId, cred, now, 0, 0, 0)]
        /\ reply' = NoReply
        /\ UNCHANGED faults
     \/ /\ ~CredentialsMissing(cred)
        /\ CanFail                         \* findOne throws: 500
        /\ faults' = faults + 1
        /\ reply' = Reply("login", 500)
        /\ UNCHANGED reqs
  /\ started' = started + 1
  /\ UNCHANGED <<sessions, profiles, Session, User>>

\* await user.save({validateBeforeSave: false})
LoginSaveUser(r) ==
  /\ reqs[r].kind = "login" /\ reqs[r].pc = "saveUser"
  /\ \/ /\ User' = [User EXCEPT ![reqs[r].user_id].lastLoginAt = Some(reqs[r].loginAt)]
        /\ reqs' = [reqs EXCEPT ![r].pc = "createSession"]
        /\ reply' = NoReply
        /\ UNCHANGED faults
     \/ /\ CanFail                         \* save throws: 500
        /\ faults' = faults + 1
        /\ reqs' = [reqs EXCEPT ![r] = Idle]
        /\ reply' = Reply("login", 500)
        /\ UNCHANGED User
  /\ UNCHANGED <<sessions, profiles, Session, started>>

\* await Session.create({userId: user._id, loginAt: new Date()}); res.status(200)
LoginCreateSession(r, now) ==
  /\ reqs[r].kind = "login" /\ reqs[r].pc = "createSession"
  /\ \/ /\ Session' = Append(Session, NewSessionDoc(reqs[r].user_id, now))
        /\ reply' = Reply("login", 200)
        /\ UNCHANGED faults
     \/ /\ CanFail                         \* create throws: 500
        /\ faults' = faults + 1
        /\ reply' = Reply("login", 500)
        /\ UNCHANGED Session
  /\ reqs' = [reqs EXCEPT ![r] = Idle]
  /\ UNCHANGED <<sessions, profiles, User, started>>

\* ----------------------------------------- Express: POST /api/auth/logout
\* The auth middleware has set req.user to the authenticated caller.

\* A check that lets every caller through.
AnyCaller(session, caller) == TRUE

\* session.userId.toString() === req.user._id.toString()
IsOwner(session, caller) == session.userId = caller

\* The 400 check; Session.findById(sessionId); the 404 and 403 checks; then
\* logoutTime = new Date(), session.logoutAt and session.durationMinutes are set.
Logout(r, sessionId, caller, now) ==
  /\ started < MaxHandlers
  /\ FirstFree(r)
  /\ IF sessionId = NoSessionId
       THEN /\ reply' = Reply("logout", 400)
            /\ UNCHANGED <<reqs, faults>>
       ELSE \/ /\ sessionId = BadObjectId     \* findById throws a CastError: 500
               /\ reply' = Reply("logout", 500)
               /\ UNCHANGED <<reqs, faults>>
            \/ /\ sessionId # BadObjectId
               /\ sessionId \notin 1..Len(Session)
               /\ reply' = Reply("logout", 404)
               /\ UNCHANGED <<reqs, faults>>
            \/ /\ sessionId \in 1..Len(Session)
               /\ ~IsOwner(Session[sessionId], caller)
               /\ reply' = Reply("logout", 403)
               /\ UNCHANGED <<reqs, faults>>
            \/ /\ sessionId \in 1..Len(Session)
               /\ IsOwner(Session[sessionId], caller)
               /\ reqs' = [reqs EXCEPT ![r] =
                    PendingClose("logout", sessionId, caller,
                                 Session[sessionId].loginAt, now,
                                 ExpressDuration(Session[sessionId].loginAt, now),
                                 Session[sessionId].logoutAt)]
               /\ reply' = NoReply
               /\ UNCHANGED faults
            \/ /\ sessionId # BadObjectId
               /\ CanFail                     \* findById throws: 500
               /\ faults' = faults + 1
               /\ reply' = Reply("logout", 500)
               /\ UNCHANGED reqs
  /\ started' = started + 1
  /\ UNCHANGED <<sessions, profiles, Session, User>>

\* await session.save()
LogoutSaveSession(r) ==
  /\ reqs[r].kind = "logout" /\ reqs[r].pc = "saveSession"
  /\ \/ /\ Session' = [Session EXCEPT ![reqs[r].session_id] =
                         [@ EXCEPT !.logoutAt = Some(reqs[r].logoutAt),
                                   !.durationMinutes = Some(reqs[r].durationMinutes)]]
        /\ reqs' = [reqs EXCEPT ![r].pc = "findUser"]
        /\ reply' = NoReply
        /\ UNCHANGED faults
     \/ /\ CanFail                         \* save throws: 500
        /\ faults' = faults + 1
        /\ reqs' = [reqs EXCEPT ![r] = Idle]
        /\ reply' = Reply("logout", 500)
        /\ UNCHANGED Session
  /\ UNCHANGED <<sessions, profiles, User, started>>

\* const user = await User.findById(req.user._id)
LogoutFindUser(r) ==
  /\ reqs[r].kind = "logout" /\ reqs[r].pc = "findUser"
  /\ \/ /\ reqs' = [reqs EXCEPT ![r].pc = "saveUser",
                                ![r].total = User[reqs[r].user_id].totalActiveMinutes]
        /\ reply' = NoReply
        /\ UNCHANGED faults
     \/ /\ CanFail                         \* findById throws: 500
        /\ faults' = faults + 1
        /\ reqs' = [reqs EXCEPT ![r] = Idle]
        /\ reply' = Reply("logout", 500)
  /\ UNCHANGED <<sessions, profiles, Session, User, started>>

\* user.lastLogoutAt = logoutTime; user.totalActiveMinutes = total + durationMinutes;
\* await user.save(); res.status(200)
LogoutSaveUser(r) ==
  /\ reqs[r].kind = "logout" /\ reqs[r].pc = "saveUser"
  /\ \/ /\ User' = [User EXCEPT ![reqs[r].user_id] =
                      [@ EXCEPT !.lastLogoutAt = Some(reqs[r].logoutAt),
                                !.totalActiveMinutes = reqs[r].total + reqs[r].durationMinutes]]
        /\ reply' = Reply("logout", 200)
        /\ UNCHANGED faults
     \/ /\ CanFail                         \* save throws: 500
        /\ faults' = faults + 1
        /\ reply' = Reply("logout", 500)
        /\ UNCHANGED User
  /\ reqs' = [reqs EXCEPT ![r] = Idle]
  /\ UNCHANGED <<sessions, profiles, Session, started>>

NextExpress ==
  \/ \E r \in Slots, cred \in Credentials, now \in Instants : Login(r, cred, now) /\ UNCHANGED clientVars
  \/ \E r \in Slots : LoginSaveUser(r) /\ UNCHANGED clientVars
  \/ \E r \in Slots, now \in Instants : LoginCreateSession(r, now) /\ UNCHANGED clientVars
  \/ \E r \in Slots, sid \in SessionIds(Len(Session)) \cup {NoSessionId, BadObjectId},
        caller \in Users, now \in Instants : Logout(r, sid, caller, now) /\ UNCHANGED clientVars
  \/ \E r \in Slots : LogoutSaveSession(r) /\ UNCHANGED clientVars
  \/ \E r \in Slots : LogoutFindUser(r) /\ UNCHANGED clientVars
  \/ \E r \in Slots : LogoutSaveUser(r) /\ UNCHANGED clientVars

SpecExpress == Init /\ [][NextExpress]_vars

Next == NextHosted \/ NextExpress

Spec == Init /\ [][Next]_vars

\* ------------------------------------------------ one teardown of one tab
\* logout() awaits closeSession for the current session; when the page is
\* torn down meanwhile, handleBeforeUnload sends the beacon for the same
\* session and user with logout_at = new Date().  The second of the two is
\* issued while the first is still in flight, at the same reading of the
\* clock.

InitTeardown == Init /\ Len(sessions) = 1

InFlight(kind) == \E q \in Slots : reqs[q].kind = kind

\* The clock readings of one teardown: not before the session's login_at, and
\* the reading of the handler already in flight, if there is one.
TeardownInstants ==
  {t \in Instants :
     /\ t >= sessions[1].login_at
     /\ \A q \in Slots : ~Free(q) => t = reqs[q].logoutAt}

TeardownLogout ==
  /\ started = 0 \/ (started = 1 /\ InFlight("beacon"))
  /\ \E r \in Slots, now \in TeardownInstants :
       CloseSessionSelect(r, 1, sessions[1].user_id, now)

TeardownBeacon ==
  /\ started = 0 \/ (started = 1 /\ InFlight("closeSession"))
  /\ \E r \in Slots, now \in TeardownInstants :
       BeaconReceive(r, 1, sessions[1].user_id, Some(now), now)

NextTeardown ==
  \/ TeardownLogout /\ UNCHANGED clientVars
  \/ TeardownBeacon /\ UNCHANGED clientVars
  \/ \E r \in Slots : CloseSessionUpdateSession(r) /\ UNCHANGED clientVars
  \/ \E r \in Slots : CloseSessionSelectProfile(r) /\ UNCHANGED clientVars
  \/ \E r \in Slots : CloseSessionUpdateProfile(r) /\ UNCHANGED clientVars
  \/ \E r \in Slots : BeaconUpdateSession(r) /\ UNCHANGED clientVars
  \/ \E r \in Slots : BeaconSelectProfile(r) /\ UNCHANGED clientVars
  \/ \E r \in Slots : BeaconUpdateProfile(r) /\ UNCHANGED clientVars

SpecTeardown == InitTeardown /\ [][NextTeardown]_vars

\* -------------------------------- repeated closes of one session, in turn
\* The owner of the one session closes it again and again, by any of the
\* three close paths of the back end that holds it; a close is issued when
\* the one before has returned, and the clock is not set back.

InitRepeat == Init /\ (Len(sessions) = 1 \/ Len(Session) = 1)

AllFree == \A r \in Slots : Free(r)

\* The latest instant written to a session: its logout time once it is
\* closed, its login time before.
LastInstant(loginAt, logoutAt) == IF logoutAt = Null THEN loginAt ELSE Val(logoutAt)

RepeatCloseSession ==
  /\ AllFree /\ Len(sessions) = 1
  /\ \E r \in Slots, now \in Instants :
       /\ now >= LastInstant(sessions[1].login_at, sessions[1].logout_at)
       /\ CloseSessionSelect(r, 1, sessions[1].user_id, now)

RepeatBeacon ==
  /\ AllFree /\ Len(sessions) = 1
  /\ \E r \in Slots, now \in Instants :
       /\ now >= LastInstant(sessions[1].login_at, sessions[1].logout_at)
       /\ BeaconReceive(r, 1, sessions[1].user_id, Some(now), now)

RepeatLogout ==
  /\ AllFree /\ Len(Session) = 1
  /\ \E r \in Slots, now \in Instants :
       /\ now >= LastInstant(Session[1].loginAt, Session[1].logoutAt)
       /\ Logout(r, 1, Session[1].userId, now)

NextRepeat ==
  \/ RepeatCloseSession /\ UNCHANGED clientVars
  \/ RepeatBeacon /\ UNCHANGED clientVars
  \/ RepeatLogout /\ UNCHANGED clientVars
  \/ \E r \in Slots : CloseSessionUpdateSession(r) /\ UNCHANGED clientVars
  \/ \E r \in Slots : CloseSessionSelectProfile(r) /\ UNCHANGED clientVars
  \/ \E r \in Slots : CloseSessionUpdateProfile(r) /\ UNCHANGED clientVars
  \/ \E r \in Slots : BeaconUpdateSession(r) /\ UNCHANGED clientVars
  \/ \E r \in Slots : BeaconSelectProfile(r) /\ UNCHANGED clientVars
  \/ \E r \in Slots : BeaconUpdateProfile(r) /\ UNCHANGED clientVars
  \/ \E r \in Slots : LogoutSaveSession(r) /\ UNCHANGED clientVars
  \/ \E r \in Slots : LogoutFindUser(r) /\ UNCHANGED clientVars
  \/ \E r \in Slots : LogoutSaveUser(r) /\ UNCHANGED clientVars

SpecRepeat == InitRepeat /\ [][NextRepeat]_vars

\* ------------------------------------------- the browser tab: AuthProvider
\* One tab of one browser.  The Supabase client keeps the auth session across
\* page loads; sessionStorage lasts as long as the tab; the state of
\* AuthProvider and its callbacks last as long as the page.

\* AuthProvider mounts: useState initial values; the effect subscribes to
\* onAuthStateChange and calls supabase.auth.getSession().
Mount ==
  /\ mounted' = TRUE
  /\ user' = Null
  /\ currentSessionId' = Null
  /\ tasks' = [NoTasks EXCEPT !.startup.pc = "getSession"]

\* The page goes away: the client functions in flight are not resumed.
DropClientHandlers ==
  reqs' = [r \in Slots |->
             IF reqs[r].kind \in {"createSession", "closeSession"} THEN Idle ELSE reqs[r]]

\* The tab is opened on the application.
OpenTab ==
  /\ ~mounted
  /\ Mount
  /\ UNCHANGED <<signedIn, sessionStorage, beacons, serverVars>>

\* getSession().then: setUser(existingSession?.user ?? null); with a user,
\* fetchProfile is awaited.
GetSessionResolved ==
  /\ tasks.startup.pc = "getSession"
  /\ user' = signedIn
  /\ tasks' = [tasks EXCEPT !.startup =
                 IF signedIn # Null
                   THEN [pc |-> "fetchProfile", slot |-> 0, uid |-> Val(signedIn)]
                   ELSE NoTask]
  /\ UNCHANGED <<signedIn, mounted, currentSessionId, sessionStorage, beacons, serverVars>>

\* A start-up path that calls createSession whatever sessionStorage holds.
StartupAlwaysCreate ==
  /\ tasks.startup.pc = "fetchProfile"
  /\ tasks' = [tasks EXCEPT !.startup.pc = "createSession"]
  /\ UNCHANGED <<signedIn, mounted, user, currentSessionId, sessionStorage, beacons, serverVars>>

\* fetchProfile has returned: sessionStorage.getItem('learning_session_id');
\* a stored id becomes currentSessionId, otherwise createSession is called.
StartupCheckCache ==
  /\ tasks.startup.pc = "fetchProfile"
  /\ IF sessionStorage.learning_session_id # Null
       THEN /\ currentSessionId' = sessionStorage.learning_session_id
            /\ tasks' = [tasks EXCEPT !.startup = NoTask]
       ELSE /\ tasks' = [tasks EXCEPT !.startup.pc = "createSession"]
            /\ UNCHANGED currentSessionId
  /\ UNCHANGED <<signedIn, mounted, user, sessionStorage, beacons, serverVars>>

\* What a callback of AuthProvider does when createSession returns sessionId:
\* setCurrentSessionId(sessionId); if (sessionId) both items are stored.
CreateSessionReturned(task, sessionId) ==
  /\ currentSessionId' = sessionId
  /\ sessionStorage' = IF sessionId # Null
                         THEN Cached(Val(sessionId), tasks[task].uid)
                         ELSE sessionStorage
  /\ tasks' = [tasks EXCEPT ![task] = NoTask]

\* Row level security: the database takes inserts and updates of userId's
\* rows only from the client that is signed in as userId.
SignedInAs(userId) == signedIn = Some(userId)

\* A callback calls createSession: the insert; when it fails, as it does for
\* a client that is no longer signed in, createSession returns null at once.
CallCreateSession(task, r, now) ==
  /\ tasks[task].pc = "createSession"
  /\ IF SignedInAs(tasks[task].uid)
       THEN /\ CreateSessionInsert(r, tasks[task].uid, now)
            /\ IF reqs'[r].kind = "createSession"
                 THEN /\ tasks' = [tasks EXCEPT ![task].pc = "awaitCreateSession",
                                                ![task].slot = r]
                      /\ UNCHANGED <<currentSessionId, sessionStorage>>
                 ELSE CreateSessionReturned(task, Null)
       ELSE /\ CreateSessionReturned(task, Null)
            /\ UNCHANGED serverVars
  /\ UNCHANGED <<signedIn, mounted, user, beacons>>

\* createSession updates the profile, which changes no row for a client that
\* is no longer signed in, and returns data.id to the callback.
AwaitCreateSession(task, now) ==
  /\ tasks[task].pc = "awaitCreateSession"
  /\ IF SignedInAs(tasks[task].uid)
       THEN CreateSessionUpdateProfile(tasks[task].slot, now)
       ELSE /\ reqs' = [reqs EXCEPT ![tasks[task].slot] = Idle]
            /\ reply' = Reply("createSession", 0)
            /\ UNCHANGED <<sessions, profiles, Session, User, faults, started>>
  /\ CreateSessionReturned(task, Some(reqs[tasks[task].slot].session_id))
  /\ UNCHANGED <<signedIn, mounted, user, beacons>>

\* The start-up path without a stored id: createSession(existingSession.user.id).
StartupCreateSession(r, now) == CallCreateSession("startup", r, now)
StartupCreated(now) == AwaitCreateSession("startup", now)

\* onAuthStateChange delivers SIGNED_IN for userId, after login() has signed
\* userId in or again for the auth session the client holds:
\* setUser(currentSession.user); setTimeout(...) defers the rest.  The tab
\* signs in one user at a time, and one deferred callback runs at a time.
SignedIn(userId) ==
  /\ mounted
  /\ signedIn \in {Null, Some(userId)}
  /\ tasks.deferred.pc = "none"
  /\ signedIn' = Some(userId)
  /\ user' = Some(userId)
  /\ tasks' = [tasks EXCEPT !.deferred = [pc |-> "fetchProfile", slot |-> 0, uid |-> userId]]
  /\ UNCHANGED <<mounted, currentSessionId, sessionStorage, beacons, serverVars>>

\* The deferred callback: fetchProfile has returned, createSession is called.
DeferredFetchProfile ==
  /\ tasks.deferred.pc = "fetchProfile"
  /\ tasks' = [tasks EXCEPT !.deferred.pc = "createSession"]
  /\ UNCHANGED <<signedIn, mounted, user, currentSessionId, sessionStorage, beacons, serverVars>>

DeferredCreateSession(r, now) == CallCreateSession("deferred", r, now)
DeferredCreated(now) == AwaitCreateSession("deferred", now)

\* logout(): if (currentSessionId && user) closeSession(currentSessionId,
\* user.id) is awaited, then supabase.auth.signOut().
LogoutCall(r, now) ==
  /\ mounted
  /\ user # Null
  /\ tasks.logout.pc = "none"
  /\ IF currentSessionId # Null
       THEN /\ CloseSessionSelect(r, Val(currentSessionId), Val(user), now)
            /\ tasks' = [tasks EXCEPT !.logout =
                 IF reqs'[r].kind = "closeSession"
                   THEN [pc |-> "closeSession", slot |-> r, uid |-> Val(user)]
                   ELSE [NoTask EXCEPT !.pc = "signOut"]]
       ELSE /\ tasks' = [tasks EXCEPT !.logout.pc = "signOut"]
            /\ UNCHANGED serverVars
  /\ UNCHANGED <<signedIn, mounted, user, currentSessionId, sessionStorage, beacons>>

\* A logout() that gives up when its closeSession met a failed call.
LogoutCloseSessionRethrows(r) ==
  /\ tasks.logout.pc = "closeSession"
  /\ tasks.logout.slot = r
  /\ \/ CloseSessionUpdateSession(r)
     \/ CloseSessionSelectProfile(r)
     \/ CloseSessionUpdateProfile(r)
  /\ tasks' = IF faults' > faults
                THEN [tasks EXCEPT !.logout = NoTask]
                ELSE IF reqs'[r].pc = "done"
                  THEN [tasks EXCEPT !.logout = [NoTask EXCEPT !.pc = "signOut"]]
                  ELSE tasks
  /\ UNCHANGED <<signedIn, mounted, user, currentSessionId, sessionStorage, beacons>>

\* The closeSession that logout() awaits goes on; when it returns, signOut is next.
LogoutCloseSession(r) ==
  /\ tasks.logout.pc = "closeSession"
  /\ tasks.logout.slot = r
  /\ \/ CloseSessionUpdateSession(r)
     \/ CloseSessionSelectProfile(r)
     \/ CloseSessionUpdateProfile(r)
  /\ tasks' = IF reqs'[r].pc = "done"
                THEN [tasks EXCEPT !.logout = [NoTask EXCEPT !.pc = "signOut"]]
                ELSE tasks
  /\ UNCHANGED <<signedIn, mounted, user, currentSessionId, sessionStorage, beacons>>

\* signOut() ends the auth session and onAuthStateChange delivers SIGNED_OUT:
\* setUser(null); setCurrentSessionId(null); both items are removed.
SignOut ==
  /\ tasks.logout.pc = "signOut"
  /\ signedIn' = Null
  /\ user' = Null
  /\ currentSessionId' = Null
  /\ sessionStorage' = EmptyStorage
  /\ tasks' = [tasks EXCEPT !.logout = NoTask]
  /\ UNCHANGED <<mounted, beacons, serverVars>>

\* A handler that sends a beacon whatever sessionStorage holds.
HandleBeforeUnloadAlways(now) ==
  beacons' = Append(beacons,
               [session_id |-> IF sessionStorage.learning_session_id = Null
                                 THEN NoSessionId
                                 ELSE Val(sessionStorage.learning_session_id),
                user_id |-> IF sessionStorage.user_id = Null
                              THEN NoUserId
                              ELSE Val(sessionStorage.user_id),
                logout_at |-> now])

\* handleBeforeUnload: if (sessionId && userId) navigator.sendBeacon(url,
\* {session_id, user_id, logout_at: new Date()}); nothing is awaited.
HandleBeforeUnload(now) ==
  beacons' = IF sessionStorage.learning_session_id # Null /\ sessionStorage.user_id # Null
               THEN Append(beacons,
                      [session_id |-> Val(sessionStorage.learning_session_id),
                       user_id |-> Val(sessionStorage.user_id),
                       logout_at |-> now])
               ELSE beacons

\* The page is reloaded: beforeunload, then the page is loaded again in the
\* same tab; sessionStorage is kept.  One beacon is in flight at a time.
Reload(now) ==
  /\ mounted
  /\ beacons = <<>>
  /\ HandleBeforeUnload(now)
  /\ Mount
  /\ DropClientHandlers
  /\ UNCHANGED <<signedIn, sessionStorage, sessions, profiles, Session, User, reply, faults, started>>

\* The tab is closed: beforeunload, then the page and sessionStorage are gone.
CloseTab(now) ==
  /\ mounted
  /\ beacons = <<>>
  /\ HandleBeforeUnload(now)
  /\ mounted' = FALSE
  /\ user' = Null
  /\ currentSessionId' = Null
  /\ sessionStorage' = EmptyStorage
  /\ tasks' = NoTasks
  /\ DropClientHandlers
  /\ UNCHANGED <<signedIn, sessions, profiles, Session, User, reply, faults, started>>

\* The edge function receives the oldest beacon.
BeaconDelivered(r) ==
  /\ beacons # <<>>
  /\ BeaconReceive(r, Head(beacons).session_id, Head(beacons).user_id,
                   Some(Head(beacons).logout_at), Head(beacons).logout_at)
  /\ beacons' = Tail(beacons)
  /\ UNCHANGED <<signedIn, mounted, user, currentSessionId, sessionStorage, tasks>>

\* The tab when the behaviour starts: not open and signed out, or showing the
\* page to the owner of the one open session, signed in, with that session
\* as the current one and in sessionStorage.
InitClient ==
  /\ InitStores
  /\ Session = <<>>
  /\ InitHandlers
  /\ IF sessions = <<>>
       THEN InitSignedOut
       ELSE /\ signedIn = Some(sessions[1].user_id)
            /\ mounted = TRUE
            /\ user = Some(sessions[1].user_id)
            /\ currentSessionId = Some(1)
            /\ sessionStorage = Cached(1, sessions[1].user_id)
            /\ tasks = NoTasks
            /\ beacons = <<>>

\* The clock readings of the tab.
ClientInstants == {0, HalfMinuteMs}

\* Sign-in, start-up, logout and unload of the tab; the beacons it sends
\* stay in flight.
NextClient ==
  \/ OpenTab
  \/ GetSessionResolved
  \/ StartupCheckCache
  \/ \E r \in Slots, now \in ClientInstants : StartupCreateSession(r, now)
  \/ \E now \in ClientInstants : StartupCreated(now)
  \/ \E userId \in Users : SignedIn(userId)
  \/ DeferredFetchProfile
  \/ \E r \in Slots, now \in ClientInstants : DeferredCreateSession(r, now)
  \/ \E now \in ClientInstants : DeferredCreated(now)
  \/ \E r \in Slots, now \in ClientInstants : LogoutCall(r, now)
  \/ \E r \in Slots : LogoutCloseSession(r)
  \/ SignOut
  \/ \E now \in ClientInstants : Reload(now)
  \/ \E now \in ClientInstants : CloseTab(now)

SpecClient == InitClient /\ [][NextClient]_vars

\* ------------------------------------- unload of a tab with a cached session
\* The tab of InitClient that holds a session is reloaded, closed and opened
\* again, and the edge function handles the beacons.

InitUnload == InitClient /\ sessions # <<>>

NextUnload ==
  \/ \E now \in ClientInstants : Reload(now)
  \/ \E now \in ClientInstants : CloseTab(now)
  \/ OpenTab
  \/ GetSessionResolved
  \/ StartupCheckCache
  \/ \E r \in Slots, now \in ClientInstants : StartupCreateSession(r, now)
  \/ \E now \in ClientInstants : StartupCreated(now)
  \/ \E r \in Slots : BeaconDelivered(r)
  \/ \E r \in Slots : BeaconUpdateSession(r) /\ UNCHANGED clientVars
  \/ \E r \in Slots : BeaconSelectProfile(r) /\ UNCHANGED clientVars
  \/ \E r \in Slots : BeaconUpdateProfile(r) /\ UNCHANGED clientVars

SpecUnload == InitUnload /\ [][NextUnload]_vars

\* --------------------------------------- two visits of one user in one tab
\* A user signs in in a new tab that has loaded, stays seven minutes and
\* closes the tab; the beacon is handled; the user, still signed in to the
\* Supabase client, opens the application again and logs out three minutes
\* later, after the beacon has been handled.

SevenMinutes == 7 * MsPerMinute
ThreeMinutes == 3 * MsPerMinute

\* The stores are empty and the tab is not open; the two visits start
\* ScenarioHandlers handlers, which started counts up to MaxHandlers.
InitScenario ==
  /\ sessions = <<>>
  /\ profiles = [u \in Users |-> NewProfile]
  /\ Session = <<>>
  /\ User = [u \in Users |-> NewUserDoc]
  /\ reqs = [r \in Slots |-> Idle]
  /\ reply = NoReply
  /\ faults = 0
  /\ started = MaxHandlers - ScenarioHandlers
  /\ InitSignedOut

\* The clock when a session is opened: an instant of the first visit, or up
\* to a minute after the first visit's end.
OpenInstants ==
  IF sessions = <<>>
    THEN Instants
    ELSE {sessions[1].login_at + SevenMinutes + t : t \in Instants}

\* No beacon is in flight or being handled.
BeaconsHandled == beacons = <<>> /\ ~InFlight("beacon")

NextScenario ==
  \/ OpenTab
  \/ GetSessionResolved
  \/ StartupCheckCache
  \/ \E r \in Slots, now \in OpenInstants : StartupCreateSession(r, now)
  \/ \E now \in OpenInstants : StartupCreated(now)
  \/ \E userId \in Users :
       sessions = <<>> /\ signedIn = Null /\ tasks.startup = NoTask /\ SignedIn(userId)
  \/ DeferredFetchProfile
  \/ \E r \in Slots, now \in OpenInstants : DeferredCreateSession(r, now)
  \/ \E now \in OpenInstants : DeferredCreated(now)
  \/ Len(sessions) = 1 /\ currentSessionId = Some(1)
       /\ CloseTab(sessions[1].login_at + SevenMinutes)
  \/ \E r \in Slots : BeaconDelivered(r)
  \/ \E r \in Slots : BeaconUpdateSession(r) /\ UNCHANGED clientVars
  \/ \E r \in Slots : BeaconSelectProfile(r) /\ UNCHANGED clientVars
  \/ \E r \in Slots : BeaconUpdateProfile(r) /\ UNCHANGED clientVars
  \/ \E r \in Slots : currentSessionId = Some(2) /\ BeaconsHandled
       /\ LogoutCall(r, sessions[2].login_at + ThreeMinutes)
  \/ \E r \in Slots : LogoutCloseSession(r)
  \/ SignOut

SpecScenario == InitScenario /\ [][NextScenario]_vars

\* ============================================================== the claims

\* The total_active_minutes of every profile and of every User document.
Totals ==
  <<[u \in Users |-> profiles[u].total_active_minutes],
    [u \in Users |-> User[u].totalActiveMinutes]>>

\* The sum of duration_minutes over the closed rows of userId among the first
\* n rows of the sessions table, and the same for the Session collection.
RECURSIVE ClosedMinutes(_, _)
ClosedMinutes(userId, n) ==
  IF n = 0 THEN 0
  ELSE ClosedMinutes(userId, n - 1)
         + (IF sessions[n].user_id = userId /\ sessions[n].duration_minutes # Null
              THEN Val(sessions[n].duration_minutes) ELSE 0)

RECURSIVE ClosedMinutesExpress(_, _)
ClosedMinutesExpress(userId, n) ==
  IF n = 0 THEN 0
  ELSE ClosedMinutesExpress(userId, n - 1)
         + (IF Session[n].userId = userId /\ Session[n].durationMinutes # Null
              THEN Val(Session[n].durationMinutes) ELSE 0)

\* C1: a close handler that found its session already closed when it read it
\* (a second close of that session, issued after the first has returned)
\* changes no total_active_minutes in any of its steps, when no persistence
\* call has failed.
C1_SecondCloseKeepsTotals ==
  [][\A r \in Slots :
       (reqs[r].wasClosed /\ reqs'[r] # reqs[r] /\ faults' = 0)
         => Totals' = Totals]_vars

\* C2: whenever no handler is in flight and no persistence call has failed,
\* every profile's total_active_minutes is the sum of duration_minutes over
\* that user's closed sessions.
C2_TotalIsSumOfDurations ==
  (AllFree /\ faults = 0) =>
    \A u \in Users :
      /\ profiles[u].total_active_minutes = ClosedMinutes(u, Len(sessions))
      /\ User[u].totalActiveMinutes = ClosedMinutesExpress(u, Len(Session))

\* C3: when the explicit logout's closeSession and the unload beacon of one
\* teardown have both finished, whatever the interleaving of their steps, the
\* owner's total_active_minutes has grown by the session's duration once.
C3_TeardownCountsOnce ==
  (started = 2 /\ AllFree /\ faults = 0) =>
    profiles[sessions[1].user_id].total_active_minutes
      = Val(sessions[1].duration_minutes)

\* C4: for every session of either back end, logout_at is null if and only
\* if duration_minutes is null.
C4_LogoutIffDuration ==
  /\ \A i \in 1..Len(sessions) :
       (sessions[i].logout_at = Null) <=> (sessions[i].duration_minutes = Null)
  /\ \A i \in 1..Len(Session) :
       (Session[i].logoutAt = Null) <=> (Session[i].durationMinutes = Null)

\* C4 witness: a session that a close path has closed, in either back end.
C4_Witness ==
  \/ \E i \in 1..Len(sessions) : sessions[i].logout_at # Null
  \/ \E i \in 1..Len(Session) : Session[i].logoutAt # Null

\* C5: every closed session has duration_minutes >= 0, also when its logout
\* time is earlier than its login_at.
C5_DurationNotNegative ==
  /\ \A i \in 1..Len(sessions) :
       sessions[i].duration_minutes # Null => Val(sessions[i].duration_minutes) >= 0
  /\ \A i \in 1..Len(Session) :
       Session[i].durationMinutes # Null => Val(Session[i].durationMinutes) >= 0

\* (e + 30) div 60 for the elapsed time e in whole seconds.
NearestMinute(loginAt, logoutAt) == ((logoutAt - loginAt) \div 1000 + 30) \div 60

\* C6: every closed session whose logout time is not before its login time
\* stores the elapsed minutes rounded to the nearest integer, halves up; 15
\* minutes 30 seconds give 16 and 15 minutes 29 seconds give 15; the three
\* close paths compute the same value from the same two instants.
C6_RoundsHalfUp ==
  /\ \A i \in 1..Len(sessions) :
       (sessions[i].logout_at # Null /\ Val(sessions[i].logout_at) >= sessions[i].login_at)
         => Val(sessions[i].duration_minutes)
              = NearestMinute(sessions[i].login_at, Val(sessions[i].logout_at))
  /\ \A i \in 1..Len(Session) :
       (Session[i].logoutAt # Null /\ Val(Session[i].logoutAt) >= Session[i].loginAt)
         => Val(Session[i].durationMinutes)
              = NearestMinute(Session[i].loginAt, Val(Session[i].logoutAt))
  /\ \A a \in Instants, b \in Instants \cup {930000, 929000} :
       a <= b => /\ ClientDuration(a, b) = NearestMinute(a, b)
                 /\ BeaconDuration(a, b) = ClientDuration(a, b)
                 /\ ExpressDuration(a, b) = ClientDuration(a, b)
  /\ ClientDuration(0, 930000) = 16
  /\ ClientDuration(0, 929000) = 15

\* C6 witness: a session closed half a minute after its login, stored with
\* a duration of one minute.
C6_Witness ==
  \/ \E i \in 1..Len(sessions) :
       /\ sessions[i].logout_at = Some(sessions[i].login_at + HalfMinuteMs)
       /\ sessions[i].duration_minutes = Some(1)
  \/ \E i \in 1..Len(Session) :
       /\ Session[i].logoutAt = Some(Session[i].loginAt + HalfMinuteMs)
       /\ Session[i].durationMinutes = Some(1)

\* The step in which close handler r, which found its session open, returns.
ClosesOpenSession(r, kinds) ==
  /\ reqs[r].kind \in kinds
  /\ ~reqs[r].wasClosed
  /\ reqs'[r] = Idle
  /\ faults' = 0

\* C7: when a close of an open session S returns with no persistence call
\* failed, the owner's last_logout_at is the logout time stored in S, the
\* owner's total_active_minutes has grown by the duration stored in S, and
\* no other profile has changed.
C7_CloseCreditsOwnerOnly ==
  [][\A r \in Slots :
       /\ ClosesOpenSession(r, {"closeSession", "beacon"}) =>
            LET S == sessions'[reqs[r].session_id]
            IN profiles' = [profiles EXCEPT ![S.user_id] =
                 [@ EXCEPT !.last_logout_at = S.logout_at,
                           !.total_active_minutes = @ + Val(S.duration_minutes)]]
       /\ ClosesOpenSession(r, {"logout"}) =>
            LET S == Session'[reqs[r].session_id]
            IN User' = [User EXCEPT ![S.userId] =
                 [@ EXCEPT !.lastLogoutAt = S.logoutAt,
                           !.totalActiveMinutes = @ + Val(S.durationMinutes)]]]_vars

\* The sessions and the profiles of both back ends.
stores == <<sessions, profiles, Session, User>>

\* C8: a close attempt with a session id that matches no session is answered
\* not-found (404 by the Express logout and by the edge function, a silent
\* return by closeSession) and changes no session and no profile.
C8_UnknownSessionNotFound ==
  [][/\ \A r \in Slots, sid \in SessionIds(Len(Session)) \cup {BadObjectId},
          caller \in Users, now \in Instants :
          (Logout(r, sid, caller, now) /\ sid \notin 1..Len(Session) /\ faults' = faults)
            => (reply' = Reply("logout", 404) /\ UNCHANGED <<stores, reqs>>)
     /\ \A r \in Slots, sid \in SessionIds(Len(sessions)), uid \in Users \cup {NoProfile},
          lo \in LogoutAtInputs, now \in Instants :
          (BeaconReceive(r, sid, uid, lo, now) /\ sid \notin 1..Len(sessions)
             /\ faults' = faults)
            => (reply' = Reply("beacon", 404) /\ UNCHANGED <<stores, reqs>>)
     /\ \A r \in Slots, sid \in SessionIds(Len(sessions)), u \in Users, now \in Instants :
          (CloseSessionSelect(r, sid, u, now) /\ sid \notin 1..Len(sessions)
             /\ faults' = faults)
            => (reply' = Reply("closeSession", 0) /\ UNCHANGED <<stores, reqs>>)]_vars

\* C9: an Express logout of an existing session by a caller who is not its
\* owner is answered 403, and changes no session and no user record, nor
\* starts any work that would.
C9_NotOwnerForbidden ==
  [][\A r \in Slots, sid \in SessionIds(Len(Session)), caller \in Users, now \in Instants :
       (/\ Logout(r, sid, caller, now)
        /\ sid \in 1..Len(Session)
        /\ Session[sid].userId # caller
        /\ faults' = faults)
         => (reply' = Reply("logout", 403) /\ UNCHANGED <<stores, reqs>>)]_vars

\* C9 witness: a logout has been answered 403 while a session of another
\* user than some caller exists.
C9_Witness ==
  /\ reply = Reply("logout", 403)
  /\ \E i \in 1..Len(Session), caller \in Users : Session[i].userId # caller

\* C10: a beacon whose payload lacks session_id or user_id is answered 400
\* with no persistence call made: nothing is read, nothing is modified, no
\* call can have failed and no work is left in flight.
C10_MissingFieldsRejected ==
  [][\A r \in Slots, sid \in SessionIds(Len(sessions)) \cup {NoSessionId},
        uid \in Users \cup {NoProfile, NoUserId}, lo \in LogoutAtInputs, now \in Instants :
       (BeaconReceive(r, sid, uid, lo, now) /\ (sid = NoSessionId \/ uid = NoUserId))
         => (reply' = Reply("beacon", 400) /\ UNCHANGED <<stores, reqs, faults>>)]_vars

\* C10 witness: the edge function has answered 400.
C10_Witness == reply = Reply("beacon", 400)

\* C11: a closed session is never written again: once logout_at and
\* duration_minutes are set, no step changes either of them, also when no
\* persistence call has failed.
C11_ClosedIsTerminal ==
  [][/\ \A i \in 1..Len(sessions) :
          (sessions[i].logout_at # Null /\ faults' = 0) =>
            /\ sessions'[i].logout_at = sessions[i].logout_at
            /\ sessions'[i].duration_minutes = sessions[i].duration_minutes
     /\ \A i \in 1..Len(Session) :
          (Session[i].logoutAt # Null /\ faults' = 0) =>
            /\ Session'[i].logoutAt = Session[i].logoutAt
            /\ Session'[i].durationMinutes = Session[i].durationMinutes]_vars

\* C12: no step makes a total_active_minutes negative or smaller than it
\* was, also when no persistence call has failed.
C12_TotalNeverDecreases ==
  [][\A u \in Users : faults' = 0 =>
       /\ profiles'[u].total_active_minutes >= profiles[u].total_active_minutes
       /\ profiles'[u].total_active_minutes >= 0
       /\ User'[u].totalActiveMinutes >= User[u].totalActiveMinutes
       /\ User'[u].totalActiveMinutes >= 0]_vars

\* The locals closeSession(sessionId, userId) holds after its select when its
\* clock reads t, as a handler of the given kind.
CloseSessionLocals(kind, sessionId, userId, t) ==
  [PendingClose("closeSession", sessionId, userId,
                sessions[sessionId].login_at, t,
                ClientDuration(sessions[sessionId].login_at, t),
                sessions[sessionId].logout_at)
     EXCEPT !.kind = kind]

\* C16: for every state, session id, logout time t and user id (the owner's,
\* when the session exists), the edge
\* function given {session_id, user_id, logout_at: t} goes on exactly when
\* closeSession(session_id, user_id) at time t goes on, with the same logout
\* time and the same duration, and then writes the session fields and the
\* profile fields that closeSession writes from these; otherwise both leave
\* every session and every profile as it is.
C16_BeaconAsCloseSession ==
  [][/\ \A r \in Slots, sid \in SessionIds(Len(sessions)), uid \in Users,
          t \in Instants, now \in Instants :
          (/\ BeaconReceive(r, sid, uid, Some(t), now)
           /\ sid \in 1..Len(sessions) => sessions[sid].user_id = uid
           /\ faults' = faults) =>
            /\ IF VisibleTo(uid, sid)
                 THEN reqs' = [reqs EXCEPT ![r] = CloseSessionLocals("beacon", sid, uid, t)]
                 ELSE reqs' = reqs
            /\ UNCHANGED stores
     /\ \A r \in Slots :
          (BeaconUpdateSession(r) /\ faults' = faults) =>
            sessions' = [sessions EXCEPT ![reqs[r].session_id] =
              [@ EXCEPT !.logout_at = Some(reqs[r].logoutAt),
                        !.duration_minutes = Some(reqs[r].durationMinutes)]]
     /\ \A r \in Slots :
          (BeaconUpdateProfile(r) /\ faults' = faults) =>
            profiles' = [profiles EXCEPT ![reqs[r].user_id] =
              [@ EXCEPT !.last_logout_at = Some(reqs[r].logoutAt),
                        !.total_active_minutes = reqs[r].total + reqs[r].durationMinutes]]]_vars

\* C15: an open for user U that meets no failed persistence call appends a
\* session with user_id U, login_at the open time and logout_at and
\* duration_minutes null, and sets U's last_login_at to that same open time;
\* it changes nothing else of any profile.
C15_OpenSetsLastLogin ==
  [][/\ \A r \in Slots, u \in Users, now \in Instants :
          (CreateSessionInsert(r, u, now) /\ faults' = 0) =>
            /\ sessions' = Append(sessions, NewSessionRow(u, now))
            /\ profiles' = profiles
     /\ \A r \in Slots, now \in Instants :
          (CreateSessionUpdateProfile(r, now) /\ faults' = 0) =>
            profiles' = [profiles EXCEPT ![reqs[r].user_id].last_login_at =
                           Some(sessions[reqs[r].session_id].login_at)]
     /\ \A r \in Slots :
          (LoginSaveUser(r) /\ faults' = 0) =>
            User' = [User EXCEPT ![reqs[r].user_id].lastLoginAt = Some(reqs[r].loginAt)]
     /\ \A r \in Slots, now \in Instants :
          (LoginCreateSession(r, now) /\ faults' = 0) =>
            /\ Session' = Append(Session, NewSessionDoc(reqs[r].user_id, now))
            /\ User[reqs[r].user_id].lastLoginAt = Some(now)
            /\ User' = User]_vars

\* C13: while learning_session_id is in sessionStorage, no step of the tab
\* inserts a session row.
C13_CachedIdIsReused ==
  [][sessionStorage.learning_session_id # Null => Len(sessions') = Len(sessions)]_vars

\* C14: the session that the page holds as currentSessionId, which after a
\* reload is the id found in sessionStorage, is open: its logout_at is null.
C14_ReusedSessionStaysOpen ==
  (currentSessionId # Null /\ faults = 0) =>
    sessions[Val(currentSessionId)].logout_at = Null

\* C18: an unload of the page (reload or close) at time now sends exactly
\* one beacon {session_id, user_id, logout_at: now} with the two ids of
\* sessionStorage when both are there and none otherwise; no other step of
\* the tab sends a beacon, so none is sent again.
C18_OneBeaconPerUnload ==
  [][/\ \A now \in ClientInstants :
          (Reload(now) \/ CloseTab(now)) =>
            IF sessionStorage.learning_session_id # Null /\ sessionStorage.user_id # Null
              THEN beacons' = Append(beacons,
                                [session_id |-> Val(sessionStorage.learning_session_id),
                                 user_id |-> Val(sessionStorage.user_id),
                                 logout_at |-> now])
              ELSE beacons' = beacons
     /\ (~\E now \in ClientInstants : Reload(now) \/ CloseTab(now)) =>
          Len(beacons') <= Len(beacons)]_vars

\* C18 witness: a beacon with the ids of a session and of its user is in
\* flight after an unload.
C18_Witness ==
  /\ beacons # <<>>
  /\ Head(beacons).session_id \in 1..Len(sessions)
  /\ Head(beacons).user_id = sessions[Head(beacons).session_id].user_id

\* C19: while nobody is signed in, which after the start is from a SIGNED_OUT
\* to the next sign-in, sessionStorage holds neither item and
\* currentSessionId is null, also when no persistence call has failed.
C19_SignedOutCacheIsClear ==
  (signedIn = Null /\ faults = 0) =>
    (sessionStorage = EmptyStorage /\ currentSessionId = Null)

\* C20: the start-up path goes on only for a signed-in user; with a stored
\* learning_session_id it makes that id the currentSessionId, inserts nothing
\* and ends; without one it calls createSession, which inserts one row or
\* fails; when createSession returns an id, that id becomes currentSessionId
\* and both items are stored; when it fails, currentSessionId is null and
\* sessionStorage is left as it is.
C20_StartupReusesOrCreates ==
  [][/\ GetSessionResolved =>
          /\ (signedIn = Null) = (tasks'.startup = NoTask)
          /\ UNCHANGED <<sessions, sessionStorage, currentSessionId>>
     /\ StartupCheckCache =>
          /\ IF sessionStorage.learning_session_id # Null
               THEN /\ currentSessionId' = sessionStorage.learning_session_id
                    /\ tasks'.startup = NoTask
               ELSE /\ currentSessionId' = currentSessionId
                    /\ tasks'.startup.pc = "createSession"
          /\ UNCHANGED <<sessions, sessionStorage>>
     /\ \A r \in Slots, now \in ClientInstants :
          StartupCreateSession(r, now) =>
            /\ \/ /\ sessions' = Append(sessions, NewSessionRow(tasks.startup.uid, now))
                  /\ tasks'.startup.pc = "awaitCreateSession"
                  /\ currentSessionId' = currentSessionId
               \/ /\ sessions' = sessions
                  /\ tasks'.startup = NoTask
                  /\ currentSessionId' = Null
            /\ UNCHANGED sessionStorage
     /\ \A now \in ClientInstants :
          StartupCreated(now) =>
            /\ currentSessionId' = Some(reqs[tasks.startup.slot].session_id)
            /\ sessionStorage' = Cached(reqs[tasks.startup.slot].session_id, tasks.startup.uid)
            /\ tasks'.startup = NoTask
            /\ UNCHANGED sessions]_vars

\* C20 witness: after a reload the start-up path has made the one session,
\* found in sessionStorage, the current one again.
C20_Witness ==
  /\ beacons # <<>>
  /\ tasks.startup = NoTask
  /\ Len(sessions) = 1
  /\ currentSessionId = Some(1)
  /\ sessionStorage.learning_session_id = Some(1)

\* C17: in the two visits of user A, whose total starts at 0, with no failed
\* persistence call: the beacon of the first visit closes S1 with duration 7;
\* once it has been handled A's total is 7 for as long as S2 is not closed;
\* S2 is another row than S1, of the same user; and when the logout of the
\* second visit has signed A out, S2 has duration 3 and A's total is 10.
C17_TwoVisits ==
  (faults = 0 /\ sessions # <<>>) =>
    LET A == sessions[1].user_id
        S1 == sessions[1]
    IN /\ S1.logout_at # Null =>
            /\ S1.logout_at = Some(S1.login_at + SevenMinutes)
            /\ S1.duration_minutes = Some(7)
       /\ (S1.logout_at # Null /\ BeaconsHandled
             /\ (Len(sessions) = 2 => sessions[2].logout_at = Null)) =>
            profiles[A].total_active_minutes = 7
       /\ (Len(sessions) = 2 /\ signedIn = Null) =>
            /\ sessions[2].user_id = A
            /\ sessions[2].logout_at = Some(sessions[2].login_at + ThreeMinutes)
            /\ sessions[2].duration_minutes = Some(3)
            /\ profiles[A].total_active_minutes = 10

\* C17 witness: both visits are over: S1 and S2 are closed and A is signed out.
C17_Witness ==
  /\ faults = 0
  /\ Len(sessions) = 2
  /\ signedIn = Null
  /\ sessions[1].logout_at # Null
  /\ sessions[2].logout_at # Null

\* ------------------------------------------------ logout() of a loaded page
\* The tab signs in and logs out and is not unloaded: logout() runs to its
\* end.  An awaited persistence call resolves, so the closeSession that
\* logout() awaits takes its next step, and an awaited signOut() resolves.

NextLogout ==
  \/ OpenTab
  \/ GetSessionResolved
  \/ StartupCheckCache
  \/ \E r \in Slots, now \in ClientInstants : StartupCreateSession(r, now)
  \/ \E now \in ClientInstants : StartupCreated(now)
  \/ \E userId \in Users : SignedIn(userId)
  \/ DeferredFetchProfile
  \/ \E r \in Slots, now \in ClientInstants : DeferredCreateSession(r, now)
  \/ \E now \in ClientInstants : DeferredCreated(now)
  \/ \E r \in Slots, now \in ClientInstants : LogoutCall(r, now)
  \/ \E r \in Slots : LogoutCloseSession(r)
  \/ SignOut

SpecLogout ==
  /\ InitClient
  /\ [][NextLogout]_vars
  /\ WF_vars(\E r \in Slots : LogoutCloseSession(r))
  /\ WF_vars(SignOut)

\* C21: logout() either awaits closeSession or goes straight on to signOut;
\* the closeSession it awaits returns, whatever it found and whichever of its
\* calls failed, and logout() then calls signOut, which signs the user out
\* and ends logout().
C21_LogoutReachesSignOut ==
  /\ [][\A r \in Slots, now \in ClientInstants :
          LogoutCall(r, now) => tasks'.logout.pc \in {"closeSession", "signOut"}]_vars
  /\ (tasks.logout.pc = "closeSession") ~> (tasks.logout.pc = "signOut")
  /\ (tasks.logout.pc = "signOut") ~> (signedIn = Null /\ tasks.logout = NoTask)

\* C21 witness: the closeSession of a logout() has closed the session, its
\* profile update has failed, it has returned, and signOut is next.
C21_Witness ==
  /\ tasks.logout.pc = "signOut"
  /\ reply = Reply("closeSession", 0)
  /\ faults > 0
  /\ \E i \in 1..Len(sessions) :
       /\ sessions[i].logout_at # Null
       /\ profiles[sessions[i].user_id].last_logout_at = Null

\* ------------------------------------------------ one tab, beacons handled
\* One browser tab in normal use: a user signs in on the loaded page while
\* nobody is signed in, the page is reloaded, the user logs out, the tab is
\* closed and opened again, and the edge function handles every beacon.

NextSingleTab ==
  \/ OpenTab
  \/ GetSessionResolved
  \/ StartupCheckCache
  \/ \E r \in Slots, now \in ClientInstants : StartupCreateSession(r, now)
  \/ \E now \in ClientInstants : StartupCreated(now)
  \/ \E userId \in Users :
       signedIn = Null /\ tasks.startup = NoTask /\ SignedIn(userId)
  \/ DeferredFetchProfile
  \/ \E r \in Slots, now \in ClientInstants : DeferredCreateSession(r, now)
  \/ \E now \in ClientInstants : DeferredCreated(now)
  \/ \E r \in Slots, now \in ClientInstants : LogoutCall(r, now)
  \/ \E r \in Slots : LogoutCloseSession(r)
  \/ SignOut
  \/ \E now \in ClientInstants : Reload(now)
  \/ \E now \in ClientInstants : CloseTab(now)
  \/ \E r \in Slots : BeaconDelivered(r)
  \/ \E r \in Slots : BeaconUpdateSession(r) /\ UNCHANGED clientVars
  \/ \E r \in Slots : BeaconSelectProfile(r) /\ UNCHANGED clientVars
  \/ \E r \in Slots : BeaconUpdateProfile(r) /\ UNCHANGED clientVars

SpecSingleTab == InitClient /\ [][NextSingleTab]_vars

\* C22: when every beacon sent has been handled and no persistence call has
\* failed, no user has two sessions with logout_at null.
C22_OneOpenSessionPerUser ==
  (BeaconsHandled /\ faults = 0) =>
    \A i, j \in 1..Len(sessions) :
      (/\ i # j
       /\ sessions[i].user_id = sessions[j].user_id
       /\ sessions[i].logout_at = Null)
        => sessions[j].logout_at # Null

\* C23: an Express login whose body lacks the email, the password or both is
\* answered 400 (success false), creates no session, changes no user's
\* lastLoginAt, and starts no work that would.
C23_LoginRequiresCredentials ==
  [][\A r \in Slots, cred \in {"missing", "noEmail", "noPassword"}, now \in Instants :
       Login(r, cred, now) =>
         (reply' = Reply("login", 400) /\ UNCHANGED <<stores, reqs, faults>>)]_vars

\* C23 witness: a login has been answered 400 and no session exists.
C23_Witness == reply = Reply("login", 400) /\ Session = <<>>

\* The step in which close handler r, whose write of the session is in the
\* store, returns because its read or update of the profile failed or found
\* no row.
PartialClose(r) ==
  /\ reqs'[r] = Idle
  /\ \/ /\ reqs[r].kind \in {"closeSession", "beacon"}
        /\ reqs[r].pc \in {"selectProfile", "updateProfile"}
        /\ faults' > faults \/ reqs[r].user_id \notin Users
        /\ sessions[reqs[r].session_id].logout_at = Some(reqs[r].logoutAt)
        /\ sessions[reqs[r].session_id].duration_minutes = Some(reqs[r].durationMinutes)
     \/ /\ reqs[r].kind = "logout"
        /\ reqs[r].pc \in {"findUser", "saveUser"}
        /\ faults' > faults
        /\ Session[reqs[r].session_id].logoutAt = Some(reqs[r].logoutAt)
        /\ Session[reqs[r].session_id].durationMinutes = Some(reqs[r].durationMinutes)

\* C24: when a close has written logout_at and duration_minutes onto its
\* session and its profile read or update then fails or finds no row, the
\* handler ends there: the session keeps what was written, no profile
\* changes, and every profile's total_active_minutes is at most the sum of
\* the durations of that user's closed sessions.
C24_PartialFailureUnderCounts ==
  [][\A r \in Slots :
       PartialClose(r) =>
         /\ UNCHANGED stores
         /\ \A u \in Users :
              /\ profiles'[u].total_active_minutes <= ClosedMinutes(u, Len(sessions))
              /\ User'[u].totalActiveMinutes <= ClosedMinutesExpress(u, Len(Session))]_vars

\* C25: when the edge function answers 200, with success true and the
\* duration it computed, the session named in the payload is stored closed
\* with that duration; and when its update of the session fails, the handler
\* ends there with another answer than 200, its profile steps not taken.
C25_SuccessMeansClosed ==
  [][\A r \in Slots :
       /\ (reqs[r].kind = "beacon" /\ reqs'[r] = Idle /\ reply' = Reply("beacon", 200)) =>
            /\ sessions'[reqs[r].session_id].logout_at # Null
            /\ sessions'[reqs[r].session_id].duration_minutes = Some(reqs[r].durationMinutes)
       /\ (BeaconUpdateSession(r) /\ faults' > faults) =>
            /\ reqs'[r] = Idle
            /\ reply' \notin {NoReply, Reply("beacon", 200)}]_vars

\* C26: an open writes last_login_at only after it has created its session:
\* a createSession whose insert fails changes no profile and ends; its
\* profile update changes the last_login_at of the user whose row it has
\* inserted, and nothing else; the Express login saves lastLoginAt in a
\* handler that has created its Session document; and when Session.create
\* fails, the user's lastLoginAt is not the one this login computed.
C26_SessionBeforeLastLogin ==
  [][/\ \A r \in Slots, u \in Users, now \in Instants :
          (CreateSessionInsert(r, u, now) /\ sessions' = sessions) =>
            UNCHANGED <<profiles, reqs>>
     /\ \A r \in Slots, now \in Instants :
          (CreateSessionUpdateProfile(r, now) /\ profiles' # profiles) =>
            /\ reqs[r].session_id \in 1..Len(sessions)
            /\ sessions[reqs[r].session_id].user_id = reqs[r].user_id
            /\ profiles' = [profiles EXCEPT ![reqs[r].user_id].last_login_at = Some(now)]
     /\ \A r \in Slots :
          (LoginSaveUser(r) /\ User' # User) =>
            /\ reqs[r].session_id \in 1..Len(Session)
            /\ Session[reqs[r].session_id].userId = reqs[r].user_id
     /\ \A r \in Slots, now \in Instants :
          (LoginCreateSession(r, now) /\ Session' = Session) =>
            User'[reqs[r].user_id].lastLoginAt # Some(reqs[r].loginAt)]_vars

\* C27: no step removes a session or changes the user_id or the login_at of
\* one: whatever closes have run, every session has the user_id and the
\* login_at it was created with.
C27_OwnerAndLoginKept ==
  [][/\ Len(sessions') >= Len(sessions)
     /\ \A i \in 1..Len(sessions) :
          /\ sessions'[i].user_id = sessions[i].user_id
          /\ sessions'[i].login_at = sessions[i].login_at
     /\ Len(Session') >= Len(Session)
     /\ \A i \in 1..Len(Session) :
          /\ Session'[i].userId = Session[i].userId
          /\ Session'[i].loginAt = Session[i].loginAt]_vars

\* C27 witness: a close handler has just returned and the session it named
\* is closed.
C27_Witness ==
  \/ /\ reply.kind \in {"closeSession", "beacon"}
     /\ \E i \in 1..Len(sessions) :
          sessions[i].logout_at # Null /\ sessions[i].duration_minutes # Null
  \/ /\ reply = Reply("logout", 200)
     /\ \E i \in 1..Len(Session) :
          Session[i].logoutAt # Null /\ Session[i].durationMinutes # Null

\* C28: no step of the edge function's close of session S changes the
\* total_active_minutes or the last_logout_at of a profile other than that
\* of S's owner, whatever user_id the payload carries; so the profiles of
\* the other users do not depend on the payload's user_id.
C28_BeaconChangesOwnerOnly ==
  [][\A r \in Slots :
       (reqs[r].kind = "beacon" /\ reqs'[r] # reqs[r]) =>
         \A u \in Users :
           u # sessions[reqs[r].session_id].user_id =>
             /\ profiles'[u].total_active_minutes = profiles[u].total_active_minutes
             /\ profiles'[u].last_logout_at = profiles[u].last_logout_at]_vars

\* ------------------------------------------- two tabs of one user, closed
\* A user has opened the application in two tabs: two open sessions of that
\* user, a total of 0.  Each session is closed once, by its tab's logout
\* or unload beacon or by the Express logout, not before it was opened; the
\* two closes may overlap.

InitTwoTabs ==
  /\ InitHandlers
  /\ InitSignedOut
  /\ \E owner \in Users, t1 \in Instants, t2 \in Instants :
       /\ t1 <= t2
       /\ \/ /\ sessions = <<NewSessionRow(owner, t1), NewSessionRow(owner, t2)>>
             /\ profiles = [u \in Users |->
                  IF u = owner THEN [NewProfile EXCEPT !.last_login_at = Some(t2)]
                               ELSE NewProfile]
             /\ Session = <<>>
             /\ User = [u \in Users |-> NewUserDoc]
          \/ /\ sessions = <<>>
             /\ profiles = [u \in Users |-> NewProfile]
             /\ Session = <<NewSessionDoc(owner, t1), NewSessionDoc(owner, t2)>>
             /\ User = [u \in Users |->
                  IF u = owner THEN [NewUserDoc EXCEPT !.lastLoginAt = Some(t2)]
                               ELSE NewUserDoc]

\* No close handler that names session i is in flight.
NotClosing(i) == \A q \in Slots : Free(q) \/ reqs[q].session_id # i

TwoTabsCloseSession(i) ==
  /\ i \in 1..Len(sessions)
  /\ sessions[i].logout_at = Null /\ NotClosing(i)
  /\ \E r \in Slots, now \in Instants :
       /\ now >= sessions[i].login_at
       /\ CloseSessionSelect(r, i, sessions[i].user_id, now)

TwoTabsBeacon(i) ==
  /\ i \in 1..Len(sessions)
  /\ sessions[i].logout_at = Null /\ NotClosing(i)
  /\ \E r \in Slots, now \in Instants :
       /\ now >= sessions[i].login_at
       /\ BeaconReceive(r, i, sessions[i].user_id, Some(now), now)

TwoTabsLogout(i) ==
  /\ i \in 1..Len(Session)
  /\ Session[i].logoutAt = Null /\ NotClosing(i)
  /\ \E r \in Slots, now \in Instants :
       /\ now >= Session[i].loginAt
       /\ Logout(r, i, Session[i].userId, now)

NextTwoTabs ==
  \/ \E i \in 1..2 : TwoTabsCloseSession(i) /\ UNCHANGED clientVars
  \/ \E i \in 1..2 : TwoTabsBeacon(i) /\ UNCHANGED clientVars
  \/ \E i \in 1..2 : TwoTabsLogout(i) /\ UNCHANGED clientVars
  \/ \E r \in Slots : CloseSessionUpdateSession(r) /\ UNCHANGED clientVars
  \/ \E r \in Slots : CloseSessionSelectProfile(r) /\ UNCHANGED clientVars
  \/ \E r \in Slots : CloseSessionUpdateProfile(r) /\ UNCHANGED clientVars
  \/ \E r \in Slots : BeaconUpdateSession(r) /\ UNCHANGED clientVars
  \/ \E r \in Slots : BeaconSelectProfile(r) /\ UNCHANGED clientVars
  \/ \E r \in Slots : BeaconUpdateProfile(r) /\ UNCHANGED clientVars
  \/ \E r \in Slots : LogoutSaveSession(r) /\ UNCHANGED clientVars
  \/ \E r \in Slots : LogoutFindUser(r) /\ UNCHANGED clientVars
  \/ \E r \in Slots : LogoutSaveUser(r) /\ UNCHANGED clientVars

SpecTwoTabs == InitTwoTabs /\ [][NextTwoTabs]_vars

\* C29: when the closes of the two sessions S1 and S2 of one user have both
\* returned, whatever the interleaving of their steps and with no
\* persistence call failed, the user's total_active_minutes is the initial
\* total, 0, plus the duration of S1 plus the duration of S2.
C29_NoIncrementLost ==
  (AllFree /\ faults = 0) =>
    /\ (Len(sessions) = 2 /\ sessions[1].logout_at # Null /\ sessions[2].logout_at # Null) =>
         profiles[sessions[1].user_id].total_active_minutes
           = Val(sessions[1].duration_minutes) + Val(sessions[2].duration_minutes)
    /\ (Len(Session) = 2 /\ Session[1].logoutAt # Null /\ Session[2].logoutAt # Null) =>
         User[Session[1].userId].totalActiveMinutes
           = Val(Session[1].durationMinutes) + Val(Session[2].durationMinutes)

\* ------------------------------------------- logout() completed, then unload
\* The tab of SpecClient, unloaded only while no logout() is running: every
\* logout() runs to its end, so a session that closeSession has closed was
\* closed by a logout() that completed or is still running.

NextLogoutUnload ==
  \/ OpenTab
  \/ GetSessionResolved
  \/ StartupCheckCache
  \/ \E r \in Slots, now \in ClientInstants : StartupCreateSession(r, now)
  \/ \E now \in ClientInstants : StartupCreated(now)
  \/ \E userId \in Users : SignedIn(userId)
  \/ DeferredFetchProfile
  \/ \E r \in Slots, now \in ClientInstants : DeferredCreateSession(r, now)
  \/ \E now \in ClientInstants : DeferredCreated(now)
  \/ \E r \in Slots, now \in ClientInstants : LogoutCall(r, now)
  \/ \E r \in Slots : LogoutCloseSession(r)
  \/ SignOut
  \/ \E now \in ClientInstants : tasks.logout.pc = "none" /\ Reload(now)
  \/ \E now \in ClientInstants : tasks.logout.pc = "none" /\ CloseTab(now)

SpecLogoutUnload == InitClient /\ [][NextLogoutUnload]_vars

\* An unload of the page.
Unload == \E now \in ClientInstants : Reload(now) \/ CloseTab(now)

\* The beacon an unload sends does not name a session that is closed, which
\* here is one that a logout() has closed.
UnloadBeaconNamesOpenSession ==
  (Unload /\ beacons' # beacons) =>
    LET sent == beacons'[Len(beacons')].session_id
    IN sent \in 1..Len(sessions) => sessions[sent].logout_at = Null

\* C30: signOut is called when the closeSession of logout() has returned;
\* the SIGNED_OUT handler leaves currentSessionId null and sessionStorage
\* empty; while nobody is signed in after that, an unload sends no beacon,
\* also when no persistence call has failed; and no unload sends a beacon
\* that names a session closed by a logout().
C30_NoBeaconAfterLogout ==
  [][/\ SignOut =>
          /\ ~InFlight("closeSession")
          /\ currentSessionId' = Null
          /\ sessionStorage' = EmptyStorage
     /\ (Unload /\ signedIn = Null /\ faults = 0) => beacons' = beacons
     /\ UnloadBeaconNamesOpenSession]_vars

====
